---- MODULE Spec2Model ----
(***************************************************************************)
(* Model of the multi_elo input preparation: src/team_season.py (team /    *)
(* season / tournament qualification and first-season ratings) and         *)
(* src/fetch_and_save.py (listing loader, result classifier, league        *)
(* average seeding).                                                       *)
(*                                                                         *)
(* A pandas DataFrame is a sequence of records (row order is part of the   *)
(* value).  A Python str is a sequence of one-character strings, compared  *)
(* as Python compares it: lexicographically by code point.                 *)
(***************************************************************************)
EXTENDS Integers, Sequences, FiniteSets, TLC

VARIABLES
    pc,                 \* position of the running call
    file_exists,        \* whether games_list_path exists
    csv,                \* rows of the semicolon separated game listing file
    listing,            \* DataFrame returned by read_game_listing
    games_stats,        \* DataFrame of participation records
    min_num_games,      \* caller supplied floor
    tournament_stats,   \* DataFrame of per (season, tournament) thresholds
    team_season_combos, \* DataFrame returned by the qualification filter
    out_team_season,    \* file at output_team_season_path
    out_first_season,   \* file at first_season_path
    error,              \* exception that reached the caller, "none" if none
    score,              \* argument of _calc_result
    result,             \* value returned by _calc_result
    elo_ratings_dict,   \* argument of save_prepare_season_initial_ratings
    team_season_file,   \* file at team_season_path
    out_elo_ratings     \* file at output_elo_ratings_path

vars == <<pc, file_exists, csv, listing, games_stats, min_num_games,
          tournament_stats, team_season_combos, out_team_season,
          out_first_season, error, score, result, elo_ratings_dict,
          team_season_file, out_elo_ratings>>

----------------------------------------------------------------------------
(* Bounds of the model.                                                    *)

NumRounds == 2      \* round labels of a listing are 1..NumRounds
MaxGames == 2       \* rows of a game listing
MaxNumRounds == 3   \* num_rounds of a participation record is 0..MaxNumRounds
MaxRecords == 2     \* participation records handed to the filter
MaxFloor == 3       \* floors min_num_games are 0..MaxFloor
MaxScoreLen == 5    \* characters of a score field
MaxTeamSeasonRows == 3  \* rows of the team-season file

Teams == {<<"A">>, <<"B">>}
Tournaments == {<<"T">>, <<"U">>}
SeasonNumbers == {9, 10}
Rounds == 1..NumRounds
Dates == {1, 2}

----------------------------------------------------------------------------
(* Python strings.                                                         *)

Digits == <<"0", "1", "2", "3", "4", "5", "6", "7", "8", "9">>

Chars == {" ", "-", "/", ":", "A", "B", "C", "T", "U"} \cup {Digits[d] : d \in 1..10}

IsDigit(c) == \E d \in 1..10 : Digits[d] = c

DigitValue(c) == (CHOOSE d \in 1..10 : Digits[d] = c) - 1

\* Code points of the characters.
CodePoint ==
    [c \in Chars |->
        IF IsDigit(c) THEN 48 + DigitValue(c)
        ELSE CASE c = " " -> 32
               [] c = "-" -> 45
               [] c = "/" -> 47
               [] c = ":" -> 58
               [] c = "A" -> 65
               [] c = "B" -> 66
               [] c = "C" -> 67
               [] c = "T" -> 84
               [] c = "U" -> 85]

Ord(c) == CodePoint[c]

\* a < b for two Python str.
StrLess(a, b) ==
    \E i \in 1..(Len(b)) :
        /\ \A j \in 1..(i - 1) : j <= Len(a) /\ a[j] = b[j]
        /\ Len(a) >= i - 1
        /\ \/ Len(a) = i - 1
           \/ Ord(a[i]) < Ord(b[i])

\* a < b for two tuples of str, field by field.
TupleLess(a, b) ==
    \E i \in 1..Len(a) :
        /\ \A j \in 1..(i - 1) : a[j] = b[j]
        /\ StrLess(a[i], b[i])

RECURSIVE ToStr(_)
\* str(n) for an integer n >= 0.
ToStr(n) ==
    IF n < 10 THEN <<Digits[n + 1]>>
    ELSE ToStr(n \div 10) \o <<Digits[(n % 10) + 1]>>

Seasons == {ToStr(n) : n \in SeasonNumbers}

----------------------------------------------------------------------------
(* DataFrame helpers.                                                      *)

Range(s) == {s[i] : i \in 1..Len(s)}

\* DataFrame.sort_values by columns of str: by[i] is the tuple of the sort
\* columns of row i; rows with equal tuples keep their order.
SortValues(s, by) ==
    LET rank == [i \in 1..Len(s) |->
                    Cardinality({j \in 1..Len(s) :
                        \/ TupleLess(by[j], by[i])
                        \/ (by[j] = by[i] /\ j < i)})]
    IN  [k \in 1..Len(s) |-> s[CHOOSE i \in 1..Len(s) : rank[i] = k - 1]]

\* listing.sort_values(by='game_date'): rows of equal date keep their order.
SortByGameDate(s) ==
    LET rank == [i \in 1..Len(s) |->
                    Cardinality({j \in 1..Len(s) :
                        \/ s[j].game_date < s[i].game_date
                        \/ (s[j].game_date = s[i].game_date /\ j < i)})]
    IN  [k \in 1..Len(s) |-> s[CHOOSE i \in 1..Len(s) : rank[i] = k - 1]]

\* The group keys of a groupby, in the order groupby emits them (sorted).
SortedKeys(S) ==
    LET rank == [x \in S |-> Cardinality({y \in S : TupleLess(y, x)})]
    IN  [k \in 1..Cardinality(S) |-> CHOOSE x \in S : rank[x] = k - 1]

Max(S) == CHOOSE x \in S : \A y \in S : y <= x

RECURSIVE Concat(_)
\* Concatenation of a sequence of sequences.
Concat(ss) == IF ss = <<>> THEN <<>> ELSE Head(ss) \o Concat(Tail(ss))

----------------------------------------------------------------------------
(* src/team_season.py                                                      *)

\* _get_num_games_stats with the rows of a group counted instead of its
\* distinct rounds (agg 'count' for 'nunique').
GetNumGamesStatsCount(lst) ==
    LET sides == [i \in 1..(2 * Len(lst)) |->
            IF i <= Len(lst)
            THEN [team |-> lst[i].home_team, tournament |-> lst[i].tournament,
                  season |-> lst[i].season]
            ELSE [team |-> lst[i - Len(lst)].away_team,
                  tournament |-> lst[i - Len(lst)].tournament,
                  season |-> lst[i - Len(lst)].season]]
        keys == SortedKeys({<<r.team, r.tournament, r.season>> : r \in Range(sides)})
        Count(k) == Cardinality({i \in 1..Len(sides) :
            <<sides[i].team, sides[i].tournament, sides[i].season>> = k})
    IN  [g \in 1..Len(keys) |->
            [team |-> keys[g][1], tournament |-> keys[g][2],
             season |-> keys[g][3], num_rounds |-> Count(keys[g])]]

\* _get_num_games_stats: one row per (team, tournament, season) of the home
\* and away sides, num_rounds = nunique of round; groupby emits the groups in
\* key order.
GetNumGamesStats(lst) ==
    LET home_team_df == [i \in 1..Len(lst) |->
            [team |-> lst[i].home_team, tournament |-> lst[i].tournament,
             season |-> lst[i].season, round |-> lst[i].round]]
        away_team_df == [i \in 1..Len(lst) |->
            [team |-> lst[i].away_team, tournament |-> lst[i].tournament,
             season |-> lst[i].season, round |-> lst[i].round]]
        team_df == home_team_df \o away_team_df
        keys == SortedKeys({<<r.team, r.tournament, r.season>> : r \in Range(team_df)})
        NUnique(k) == Cardinality({r.round : r \in
            {x \in Range(team_df) : <<x.team, x.tournament, x.season>> = k}})
    IN  [g \in 1..Len(keys) |->
            [team |-> keys[g][1], tournament |-> keys[g][2],
             season |-> keys[g][3], num_rounds |-> NUnique(keys[g])]]

\* _calc_min_games_to_include_team with the boundary off by one (< for <=).
CalcMinGamesToIncludeTeamBelowTwo(num_games) ==
    IF num_games < 2 THEN 1 ELSE 2

\* _calc_min_games_to_include_team
CalcMinGamesToIncludeTeam(num_games) ==
    IF num_games <= 2 THEN 1 ELSE 2

\* _calc_min_allowed_games_per_tournament with max_games taken over the whole
\* table instead of the (season, tournament) group.
CalcMinAllowedGamesWholeTable(gs) ==
    LET keys == SortedKeys({<<r.season, r.tournament>> : r \in Range(gs)})
        max_games == Max({r.num_rounds : r \in Range(gs)})
    IN  [g \in 1..Len(keys) |->
            [season |-> keys[g][1], tournament |-> keys[g][2],
             min_allowed_num_games |-> IF max_games <= 2 THEN 1 ELSE 2]]

\* _calc_min_allowed_games_per_tournament: per (season, tournament) group the
\* threshold derived from the group's maximum num_rounds.
CalcMinAllowedGamesPerTournament(gs) ==
    LET keys == SortedKeys({<<r.season, r.tournament>> : r \in Range(gs)})
        max_games(k) == Max({r.num_rounds : r \in
            {x \in Range(gs) : <<x.season, x.tournament>> = k}})
    IN  [g \in 1..Len(keys) |->
            [season |-> keys[g][1], tournament |-> keys[g][2],
             min_allowed_num_games |-> CalcMinGamesToIncludeTeam(max_games(keys[g]))]]

\* The floor with the comparison turned around.
AboveFloorTurned(gs, floor) ==
    LET Keep(r) == r.num_rounds <= floor
    IN  SelectSeq(gs, Keep)

\* games_stats.loc[games_stats['num_rounds'] >= min_num_games]
AboveFloor(gs, floor) ==
    LET Keep(r) == r.num_rounds >= floor
    IN  SelectSeq(gs, Keep)

\* DataFrame.merge(how='left', on=['season', 'tournament']): every left row
\* once per matching right row, in left order; NaN where nothing matches.
\* The joined column holds <<v>> for a value v and <<>> for NaN.
MergeLeft(left, right) ==
    Concat([i \in 1..Len(left) |->
        LET Match(t) == t.season = left[i].season /\ t.tournament = left[i].tournament
            ms == SelectSeq(right, Match)
            Joined(v) == [team |-> left[i].team, tournament |-> left[i].tournament,
                          season |-> left[i].season, num_rounds |-> left[i].num_rounds,
                          min_allowed_num_games |-> v]
        IN  IF ms = <<>> THEN <<Joined(<<>>)>>
            ELSE [k \in 1..Len(ms) |-> Joined(<<ms[k].min_allowed_num_games>>)]])

\* The sort columns in the output's column order (tournament, season, team).
ComboSortKeyColumnOrder(r) == <<r.tournament, r.season, r.team>>

\* The columns of sort_values(['season', 'tournament', 'team']).
ComboSortKey(r) == <<r.season, r.tournament, r.team>>

\* _calc_team_season_tournament_combos with a strict comparison against the
\* derived threshold.
CalcTeamSeasonTournamentCombosStrict(gs, floor) ==
    LET floored == AboveFloor(gs, floor)
        min_allowed_games_stats == CalcMinAllowedGamesPerTournament(floored)
        merged == MergeLeft(floored, min_allowed_games_stats)
        Keep(r) == /\ r.min_allowed_num_games # <<>>
                   /\ r.num_rounds > r.min_allowed_num_games[1]
        kept == SelectSeq(merged, Keep)
        sorted == SortValues(kept, [i \in 1..Len(kept) |-> ComboSortKey(kept[i])])
    IN  [i \in 1..Len(sorted) |->
            [tournament |-> sorted[i].tournament, season |-> sorted[i].season,
             team |-> sorted[i].team]]

\* _calc_team_season_tournament_combos
CalcTeamSeasonTournamentCombos(gs, floor) ==
    LET floored == AboveFloor(gs, floor)
        min_allowed_games_stats == CalcMinAllowedGamesPerTournament(floored)
        merged == MergeLeft(floored, min_allowed_games_stats)
        Keep(r) == /\ r.min_allowed_num_games # <<>>
                   /\ r.num_rounds >= r.min_allowed_num_games[1]
        kept == SelectSeq(merged, Keep)
        sorted == SortValues(kept, [i \in 1..Len(kept) |-> ComboSortKey(kept[i])])
    IN  [i \in 1..Len(sorted) |->
            [tournament |-> sorted[i].tournament, season |-> sorted[i].season,
             team |-> sorted[i].team]]

----------------------------------------------------------------------------
(* src/fetch_and_save.py                                                   *)

RECURSIVE Split(_, _)
\* str.split(sep) for a one-character separator.
Split(s, sep) ==
    IF \A i \in 1..Len(s) : s[i] # sep THEN <<s>>
    ELSE LET i == CHOOSE k \in 1..Len(s) :
                      s[k] = sep /\ \A j \in 1..(k - 1) : s[j] # sep
         IN  <<SubSeq(s, 1, i - 1)>> \o Split(SubSeq(s, i + 1, Len(s)), sep)

\* str.strip(): leading and trailing whitespace removed.
Strip(s) ==
    IF \A i \in 1..Len(s) : s[i] = " " THEN <<>>
    ELSE LET first == CHOOSE k \in 1..Len(s) :
                          s[k] # " " /\ \A j \in 1..(k - 1) : s[j] = " "
             last == CHOOSE k \in 1..Len(s) :
                          s[k] # " " /\ \A j \in (k + 1)..Len(s) : s[j] = " "
         IN  SubSeq(s, first, last)

\* The digits of an integer literal after its optional sign.
Unsigned(s) == IF s # <<>> /\ s[1] = "-" THEN Tail(s) ELSE s

\* Whether int(x) returns: an optional sign and at least one digit, with
\* whitespace around them.
IsIntLiteral(x) ==
    LET u == Unsigned(Strip(x))
    IN  u # <<>> /\ \A i \in 1..Len(u) : IsDigit(u[i])

RECURSIVE Decimal(_)
Decimal(u) ==
    IF u = <<>> THEN 0
    ELSE 10 * Decimal(SubSeq(u, 1, Len(u) - 1)) + DigitValue(u[Len(u)])

\* int(x) where it returns.
IntOf(x) ==
    LET s == Strip(x)
    IN  IF s[1] = "-" THEN 0 - Decimal(Unsigned(s)) ELSE Decimal(s)

\* _calc_result: the classification, or the exception it raises.
CalcResult(sc) ==
    LET parts == Split(sc, ":")
    IN  IF \E i \in 1..Len(parts) : ~IsIntLiteral(parts[i]) THEN "ValueError"
        ELSE IF Len(parts) < 2 THEN "IndexError"
        ELSE IF IntOf(parts[1]) > IntOf(parts[2]) THEN "win1"
        ELSE IF IntOf(parts[1]) = IntOf(parts[2]) THEN "draw"
        ELSE "win2"

Raised(res) == res \in {"ValueError", "IndexError"}

\* read_game_listing on the rows of an existing file: rows sorted by
\* game_date, season as str, result classified; the first exception of a
\* score is the outcome instead.
ReadGameListing(rows) ==
    LET sorted == SortByGameDate(rows)
        bad == {i \in 1..Len(sorted) : Raised(CalcResult(sorted[i].score))}
    IN  IF bad # {}
        THEN [error |-> CalcResult(sorted[CHOOSE i \in bad : \A j \in bad : i <= j].score),
              listing |-> <<>>]
        ELSE [error |-> "none",
              listing |-> [i \in 1..Len(sorted) |->
                  [game_date |-> sorted[i].game_date,
                   season |-> ToStr(sorted[i].season),
                   tournament |-> sorted[i].tournament,
                   round |-> sorted[i].round,
                   home_team |-> sorted[i].home_team,
                   away_team |-> sorted[i].away_team,
                   score |-> sorted[i].score,
                   result |-> CalcResult(sorted[i].score)]]]

RECURSIVE SumSeq(_)
SumSeq(s) == IF s = <<>> THEN 0 ELSE Head(s) + SumSeq(Tail(s))

\* round(total / n, 2) in hundredths, for total >= 0 and n > 0: the nearest
\* hundredth, a tie going to the even one.
RoundedMean(total, n) ==
    LET q == (100 * total) \div n
        r == (100 * total) % n
    IN  IF 2 * r < n THEN q
        ELSE IF 2 * r > n THEN q + 1
        ELSE IF q % 2 = 0 THEN q ELSE q + 1

\* Whether read_csv reads a column of these labels as integers.
ReadAsIntegers(labels) ==
    \A l \in labels : l # <<>> /\ \A i \in 1..Len(l) : IsDigit(l[i])

\* save_prepare_season_initial_ratings on the rows of the team-season file
\* and a non-empty rating mapping: the rows written, or the exception raised.
\* A rating is <<v>> for a value of v hundredths and <<>> for NaN.
\* groupby(['tournament']).transform('mean', 'rating') passes 'rating' as
\* numeric_only and returns the mean of every numeric column but the key; the
\* assignment of its result to the single column avg_league_rating raises
\* ValueError unless exactly one column came back.
SavePrepareSeasonInitialRatings(dict, file) ==
    LET integers == ReadAsIntegers({r.season : r \in Range(file)})
        Earlier(a, b) == IF integers THEN Decimal(a.season) < Decimal(b.season)
                         ELSE StrLess(a.season, b.season)
        InMinSeason(r) == \A x \in Range(file) : ~Earlier(x, r)
        team_seasons == SelectSeq(file, InMinSeason)
        Rating(team) == IF team \in DOMAIN dict THEN <<dict[team]>> ELSE <<>>
        numeric_columns == (IF integers THEN {"season"} ELSE {}) \cup {"rating"}
        Rated(tournament) ==
            LET Has(r) == r.tournament = tournament /\ Rating(r.team) # <<>>
            IN  SelectSeq(team_seasons, Has)
        Mean(tournament) ==
            LET rows == Rated(tournament)
            IN  IF rows = <<>> THEN <<>>
                ELSE <<RoundedMean(SumSeq([i \in 1..Len(rows) |-> dict[rows[i].team]]),
                                   Len(rows))>>
    IN  IF Cardinality(numeric_columns) # 1
        THEN [error |-> "ValueError", rows |-> <<>>]
        ELSE [error |-> "none",
              rows |-> [i \in 1..Len(team_seasons) |->
                  [team |-> team_seasons[i].team,
                   rating |-> Mean(team_seasons[i].tournament)]]]

----------------------------------------------------------------------------
(* Values shared by the specifications.                                    *)

NoFile == [written |-> FALSE, rows |-> <<>>]

File(rows) == [written |-> TRUE, rows |-> rows]

Floors == 0..MaxFloor

\* Rows of a loaded listing, restricted to the columns team_season.py reads.
GameRows ==
    [season : Seasons, tournament : Tournaments, round : Rounds,
     home_team : Teams, away_team : Teams]

SeqsUpTo(S, n) == UNION {[1..k -> S] : k \in 0..n}

----------------------------------------------------------------------------
(* SpecListing: a loaded listing is fed through _get_num_games_stats and   *)
(* then _calc_team_season_tournament_combos.                               *)

InitListing ==
    /\ pc = "listing"
    /\ listing \in SeqsUpTo(GameRows, MaxGames)
    /\ file_exists = TRUE
    /\ csv = <<>>
    /\ games_stats = <<>>
    /\ min_num_games = 1
    /\ tournament_stats = <<>>
    /\ team_season_combos = <<>>
    /\ out_team_season = NoFile
    /\ out_first_season = NoFile
    /\ error = "none"
    /\ score = <<>>
    /\ result = "none"
    /\ elo_ratings_dict = <<>>
    /\ team_season_file = <<>>
    /\ out_elo_ratings = NoFile

\* games_stats = _get_num_games_stats(listing=listing)
ListingGetNumGamesStats ==
    /\ pc = "listing"
    /\ games_stats' = GetNumGamesStats(listing)
    /\ pc' = "stats"
    /\ UNCHANGED <<file_exists, csv, listing, min_num_games, tournament_stats,
                   team_season_combos, out_team_season, out_first_season, error,
                   score, result, elo_ratings_dict, team_season_file,
                   out_elo_ratings>>

\* _calc_team_season_tournament_combos(games_stats, min_num_games=m)
ListingCalcCombos ==
    /\ pc = "stats"
    /\ \E m \in 1..NumRounds :
        /\ min_num_games' = m
        /\ tournament_stats' = CalcMinAllowedGamesPerTournament(AboveFloor(games_stats, m))
        /\ team_season_combos' = CalcTeamSeasonTournamentCombos(games_stats, m)
    /\ pc' = "combos"
    /\ UNCHANGED <<file_exists, csv, listing, games_stats, out_team_season,
                   out_first_season, error, score, result, elo_ratings_dict,
                   team_season_file, out_elo_ratings>>

NextListing == ListingGetNumGamesStats \/ ListingCalcCombos

SpecListing == InitListing /\ [][NextListing]_vars

----------------------------------------------------------------------------
(* SpecFilter: _calc_team_season_tournament_combos is called on a table of *)
(* participation records, then called again with another floor or with one *)
(* record's num_rounds changed.                                            *)

RecordKeys == {<<te, to, se>> : te \in Teams, to \in Tournaments, se \in Seasons}

\* The table with one record per key of K, in the order groupby emits.
RecordsOf(K, num) ==
    LET keys == SortedKeys(K)
    IN  [g \in 1..Len(keys) |->
            [team |-> keys[g][1], tournament |-> keys[g][2],
             season |-> keys[g][3], num_rounds |-> num[keys[g]]]]

InitFilter ==
    /\ pc = "args"
    /\ \E K \in {S \in SUBSET RecordKeys : Cardinality(S) <= MaxRecords} :
         \E num \in [K -> 0..MaxNumRounds] :
            games_stats = RecordsOf(K, num)
    /\ file_exists = TRUE
    /\ csv = <<>>
    /\ listing = <<>>
    /\ min_num_games = 1
    /\ tournament_stats = <<>>
    /\ team_season_combos = <<>>
    /\ out_team_season = NoFile
    /\ out_first_season = NoFile
    /\ error = "none"
    /\ score = <<>>
    /\ result = "none"
    /\ elo_ratings_dict = <<>>
    /\ team_season_file = <<>>
    /\ out_elo_ratings = NoFile

\* The call _calc_team_season_tournament_combos(gs, m) and what it returns.
FilterReturns(gs, m) ==
    /\ games_stats' = gs
    /\ min_num_games' = m
    /\ tournament_stats' = CalcMinAllowedGamesPerTournament(AboveFloor(gs, m))
    /\ team_season_combos' = CalcTeamSeasonTournamentCombos(gs, m)
    /\ pc' = "returned"
    /\ UNCHANGED <<file_exists, csv, listing, out_team_season, out_first_season,
                   error, score, result, elo_ratings_dict, team_season_file,
                   out_elo_ratings>>

FilterCall ==
    /\ pc = "args"
    /\ \E m \in Floors : FilterReturns(games_stats, m)

FilterCallOtherFloor ==
    /\ pc = "returned"
    /\ \E m \in Floors \ {min_num_games} : FilterReturns(games_stats, m)

FilterCallOtherRounds ==
    /\ pc = "returned"
    /\ \E i \in 1..Len(games_stats) :
         \E n \in (0..MaxNumRounds) \ {games_stats[i].num_rounds} :
            FilterReturns([games_stats EXCEPT ![i].num_rounds = n], min_num_games)

NextFilter == FilterCall \/ FilterCallOtherFloor \/ FilterCallOtherRounds

SpecFilter == InitFilter /\ [][NextFilter]_vars

----------------------------------------------------------------------------
(* Properties of the qualification filter (SpecFilter).                    *)

SameGroup(a, b) == a.season = b.season /\ a.tournament = b.tournament

\* The records of r's (tournament, season) group that clear the floor m.
GroupAboveFloor(gs, m, r) ==
    {x \in Range(gs) : SameGroup(x, r) /\ x.num_rounds >= m}

\* The threshold the specification derives for the group of r.
DerivedThreshold(gs, m, r) ==
    IF Max({x.num_rounds : x \in GroupAboveFloor(gs, m, r)}) <= 2 THEN 1 ELSE 2

\* The records that clear both the floor and their group's threshold.
Qualifying(gs, m) ==
    {r \in Range(gs) : /\ r.num_rounds >= m
                       /\ r.num_rounds >= DerivedThreshold(gs, m, r)}

Triple(r) == [tournament |-> r.tournament, season |-> r.season, team |-> r.team]

\* C1: the filter returns a (tournament, season, team) triple if and only if
\* its record clears the floor and the threshold derived from the maximum
\* num_rounds among the rows of its group that survived the floor; nothing
\* else is emitted, nothing is emitted twice, nothing qualifying is dropped.
C1_ExactlyTheQualifying ==
    pc = "returned" =>
        /\ Range(team_season_combos) = {Triple(r) : r \in Qualifying(games_stats, min_num_games)}
        /\ Len(team_season_combos) = Cardinality(Qualifying(games_stats, min_num_games))

\* One record is dropped by the floor and another, of a group whose
\* threshold is 2, is returned.
C1_Witness ==
    /\ pc = "returned"
    /\ \E r \in Range(games_stats) : r.num_rounds < min_num_games
    /\ \E r \in Range(games_stats) :
          /\ Triple(r) \in Range(team_season_combos)
          /\ DerivedThreshold(games_stats, min_num_games, r) = 2

\* The threshold rule: every group with a row above the floor has exactly one
\* threshold row, 1 when its max_games <= 2 and 2 when its max_games >= 3.
ThresholdRule ==
    pc = "returned" =>
        /\ \A r \in Range(AboveFloor(games_stats, min_num_games)) :
              LET max_games == Max({x.num_rounds :
                      x \in GroupAboveFloor(games_stats, min_num_games, r)})
                  rows == {i \in 1..Len(tournament_stats) : SameGroup(tournament_stats[i], r)}
              IN  /\ Cardinality(rows) = 1
                  /\ \A i \in rows :
                        /\ max_games <= 2 => tournament_stats[i].min_allowed_num_games = 1
                        /\ max_games >= 3 => tournament_stats[i].min_allowed_num_games = 2
        /\ \A t \in Range(tournament_stats) :
              \E r \in Range(AboveFloor(games_stats, min_num_games)) : SameGroup(t, r)

\* A second call with the same floor, in which the records of a group are
\* the same, derives the same threshold for that group.
ThresholdIsGroupLocal ==
    (pc = "returned" /\ pc' = "returned" /\ min_num_games' = min_num_games) =>
        \A to \in Tournaments, se \in Seasons :
            LET g == [tournament |-> to, season |-> se]
                Of(tbl) == {x \in Range(tbl) : SameGroup(x, g)}
            IN  Of(games_stats') = Of(games_stats) =>
                    Of(tournament_stats') = Of(tournament_stats)

\* C2: a group's min_allowed_num_games is 1 when its max_games is <= 2 and 2
\* when it is >= 3, and it depends on the rows of that group only: changing the
\* num_rounds of a team of another tournament or season does not change it.
C2_ThresholdRuleAndLocality ==
    [][ThresholdRule' /\ ThresholdIsGroupLocal]_vars

\* A group with max_games = 2 next to a group with max_games = 3.
C2_Witness ==
    /\ pc = "returned"
    /\ \E a, b \in Range(games_stats) :
          /\ ~SameGroup(a, b)
          /\ a.num_rounds >= min_num_games
          /\ b.num_rounds >= min_num_games
          /\ Max({x.num_rounds : x \in GroupAboveFloor(games_stats, min_num_games, a)}) = 2
          /\ Max({x.num_rounds : x \in GroupAboveFloor(games_stats, min_num_games, b)}) = 3
          /\ \E t \in Range(tournament_stats) :
                SameGroup(t, a) /\ t.min_allowed_num_games = 1
          /\ \E t \in Range(tournament_stats) :
                SameGroup(t, b) /\ t.min_allowed_num_games = 2

\* C3: for the same records, a call with a floor at least as high never
\* returns more combos.
C3_RaisingFloorNeverAddsCombos ==
    [][(/\ pc = "returned"
        /\ pc' = "returned"
        /\ games_stats' = games_stats
        /\ min_num_games' >= min_num_games)
       => Len(team_season_combos') <= Len(team_season_combos)]_vars

\* A floor above the default that dropped the whole of one group (so that the
\* group's maximum is no longer seen) and kept part of another.
C3_Witness ==
    /\ pc = "returned"
    /\ min_num_games >= 2
    /\ team_season_combos # <<>>
    /\ \E r \in Range(games_stats) :
          /\ r.num_rounds >= 1
          /\ GroupAboveFloor(games_stats, min_num_games, r) = {}

\* C10: when every record has num_rounds >= 1, every group with a row that
\* clears the floor has a qualified team in the output.
C10_ThresholdNeverEmptiesAGroup ==
    (pc = "returned" /\ \A r \in Range(games_stats) : r.num_rounds >= 1) =>
        \A r \in Range(games_stats) :
            r.num_rounds >= min_num_games =>
                \E c \in Range(team_season_combos) : SameGroup(c, r)

\* A group in which the derived threshold drops a team that cleared the floor
\* and the team with max_games stays.
C10_Witness ==
    /\ pc = "returned"
    /\ \A r \in Range(games_stats) : r.num_rounds >= 1
    /\ \E r \in Range(games_stats) :
          /\ r.num_rounds >= min_num_games
          /\ Triple(r) \notin Range(team_season_combos)
          /\ \E c \in Range(team_season_combos) : SameGroup(c, r)

----------------------------------------------------------------------------
(* Properties of the participation counts and of the filter's output order *)
(* (SpecListing).                                                          *)

\* The listing rows of a (tournament, season) in which a team is a side.
AppearancesOf(team, tournament, season) ==
    {i \in 1..Len(listing) :
        /\ listing[i].tournament = tournament
        /\ listing[i].season = season
        /\ (listing[i].home_team = team \/ listing[i].away_team = team)}

StrictlyBefore(a, b) ==
    \/ StrLess(a.season, b.season)
    \/ /\ a.season = b.season
       /\ \/ StrLess(a.tournament, b.tournament)
          \/ (a.tournament = b.tournament /\ StrLess(a.team, b.team))

\* C4: the output of the qualification filter, for a listing fed through
\* _get_num_games_stats, is strictly ascending by (season, tournament, team)
\* and holds no (tournament, season, team) triple twice.
C4_OutputStrictlySorted ==
    pc = "combos" =>
        /\ \A i \in 1..(Len(team_season_combos) - 1) :
              StrictlyBefore(team_season_combos[i], team_season_combos[i + 1])
        /\ Cardinality(Range(team_season_combos)) = Len(team_season_combos)

\* An output in which the season decides one pair of neighbours, season "10"
\* going before season "9", and the team decides another.
C4_Witness ==
    /\ pc = "combos"
    /\ \E i, k \in 1..(Len(team_season_combos) - 1) :
          LET c == team_season_combos
          IN  /\ c[i].season = ToStr(10) /\ c[i + 1].season = ToStr(9)
              /\ c[k].season = c[k + 1].season /\ c[k].tournament = c[k + 1].tournament

----------------------------------------------------------------------------
(* SpecScore: _calc_result is called on a score field.                     *)

ScoreChars == {"1", "2", ":", " ", "-"}

InitScore ==
    /\ pc = "score"
    /\ score \in SeqsUpTo(ScoreChars, MaxScoreLen)
    /\ result = "none"
    /\ file_exists = TRUE
    /\ csv = <<>>
    /\ listing = <<>>
    /\ games_stats = <<>>
    /\ min_num_games = 1
    /\ tournament_stats = <<>>
    /\ team_season_combos = <<>>
    /\ out_team_season = NoFile
    /\ out_first_season = NoFile
    /\ error = "none"
    /\ elo_ratings_dict = <<>>
    /\ team_season_file = <<>>
    /\ out_elo_ratings = NoFile

\* listing['score'].map(_calc_result) on one field
ScoreCalcResult ==
    /\ pc = "score"
    /\ result' = CalcResult(score)
    /\ error' = IF Raised(CalcResult(score)) THEN CalcResult(score) ELSE "none"
    /\ pc' = "classified"
    /\ UNCHANGED <<file_exists, csv, listing, games_stats, min_num_games,
                   tournament_stats, team_season_combos, out_team_season,
                   out_first_season, score, elo_ratings_dict, team_season_file,
                   out_elo_ratings>>

NextScore == ScoreCalcResult

SpecScore == InitScore /\ [][NextScore]_vars

\* A score that does not split on ':' into exactly two integers.
Malformed(sc) ==
    LET parts == Split(sc, ":")
    IN  ~(Len(parts) = 2 /\ IsIntLiteral(parts[1]) /\ IsIntLiteral(parts[2]))

\* C7: every score that does not split on ':' into exactly two integers makes
\* _calc_result fail; none is classified as win1, draw or win2.
C7_MalformedScoreFailsHard ==
    (pc = "classified" /\ Malformed(score)) =>
        (result \notin {"win1", "draw", "win2"} /\ error # "none")

----------------------------------------------------------------------------
(* Spec: one run of generate_team_season_combos_and_init_team_ratings with *)
(* the default min_num_games and start_rating.                             *)

StartRating == 2000

DefaultMinNumGames == 1

\* Score fields of the listing file: a well-formed one, one whose parts are
\* not integers, one with three parts.
ScoreSamples == {<<"1", ":", "0">>, <<"-", " ", ":", " ", "-">>,
                 <<"1", ":", "2", ":", "1">>}

CsvRows ==
    [game_date : Dates, season : SeasonNumbers, tournament : Tournaments,
     round : Rounds, home_team : Teams, away_team : Teams, score : ScoreSamples]

Init ==
    /\ pc = "start"
    /\ \/ file_exists = TRUE /\ csv \in SeqsUpTo(CsvRows, MaxGames)
       \/ file_exists = FALSE /\ csv = <<>>
    /\ listing = <<>>
    /\ games_stats = <<>>
    /\ min_num_games = DefaultMinNumGames
    /\ tournament_stats = <<>>
    /\ team_season_combos = <<>>
    /\ out_team_season = NoFile
    /\ out_first_season = NoFile
    /\ error = "none"
    /\ score = <<>>
    /\ result = "none"
    /\ elo_ratings_dict = <<>>
    /\ team_season_file = <<>>
    /\ out_elo_ratings = NoFile

\* listing = read_game_listing(path=games_list_path), FileNotFoundError
\* raised again with the path, any other exception propagating.
RunReadGameListing ==
    /\ pc = "start"
    /\ \/ /\ ~file_exists
          /\ error' = "FileNotFoundError"
          /\ pc' = "failed"
          /\ UNCHANGED listing
       \/ /\ file_exists
          /\ ReadGameListing(csv).error # "none"
          /\ error' = ReadGameListing(csv).error
          /\ pc' = "failed"
          /\ UNCHANGED listing
       \/ /\ file_exists
          /\ ReadGameListing(csv).error = "none"
          /\ listing' = ReadGameListing(csv).listing
          /\ pc' = "loaded"
          /\ UNCHANGED error
    /\ UNCHANGED <<file_exists, csv, games_stats, min_num_games, tournament_stats,
                   team_season_combos, out_team_season, out_first_season, score,
                   result, elo_ratings_dict, team_season_file, out_elo_ratings>>

\* games_stats = _get_num_games_stats(listing=listing)
RunGetNumGamesStats ==
    /\ pc = "loaded"
    /\ games_stats' = GetNumGamesStats(listing)
    /\ pc' = "stats"
    /\ UNCHANGED <<file_exists, csv, listing, min_num_games, tournament_stats,
                   team_season_combos, out_team_season, out_first_season, error,
                   score, result, elo_ratings_dict, team_season_file,
                   out_elo_ratings>>

\* team_season_combos = _calc_team_season_tournament_combos(...)
RunCalcCombos ==
    /\ pc = "stats"
    /\ tournament_stats' =
          CalcMinAllowedGamesPerTournament(AboveFloor(games_stats, min_num_games))
    /\ team_season_combos' = CalcTeamSeasonTournamentCombos(games_stats, min_num_games)
    /\ pc' = "combos"
    /\ UNCHANGED <<file_exists, csv, listing, games_stats, min_num_games,
                   out_team_season, out_first_season, error, score, result,
                   elo_ratings_dict, team_season_file, out_elo_ratings>>

\* team_season_combos.to_csv(output_team_season_path, index=False)
RunWriteTeamSeason ==
    /\ pc = "combos"
    /\ out_team_season' = File(team_season_combos)
    /\ pc' = "wrote_team_season"
    /\ UNCHANGED <<file_exists, csv, listing, games_stats, min_num_games,
                   tournament_stats, team_season_combos, out_first_season, error,
                   score, result, elo_ratings_dict, team_season_file,
                   out_elo_ratings>>

\* team_season_combos['season'].min()
MinSeason(combos) ==
    CHOOSE s \in {c.season : c \in Range(combos)} :
        \A c \in Range(combos) : ~StrLess(c.season, s)

\* The rows of the first season's teams with the starting rating: the team
\* column of the rows whose season is the minimum, in row order.
FirstSeasonTeams(combos, start_rating) ==
    IF combos = <<>> THEN <<>>
    ELSE LET InFirst(c) == c.season = MinSeason(combos)
             rows == SelectSeq(combos, InFirst)
         IN  [i \in 1..Len(rows) |-> [team |-> rows[i].team, rating |-> start_rating]]

\* first_season_teams.to_csv(first_season_path, index=False)
RunWriteFirstSeason ==
    /\ pc = "wrote_team_season"
    /\ out_first_season' = File(FirstSeasonTeams(team_season_combos, StartRating))
    /\ pc' = "done"
    /\ UNCHANGED <<file_exists, csv, listing, games_stats, min_num_games,
                   tournament_stats, team_season_combos, out_team_season, error,
                   score, result, elo_ratings_dict, team_season_file,
                   out_elo_ratings>>

Next ==
    \/ RunReadGameListing
    \/ RunGetNumGamesStats
    \/ RunCalcCombos
    \/ RunWriteTeamSeason
    \/ RunWriteFirstSeason

Spec == Init /\ [][Next]_vars

\* C6: the initial-ratings file holds exactly the distinct teams with a
\* qualified combo in the minimum season, each exactly once with the starting
\* rating, and no team that qualified only in a later season.
C6_FirstSeasonTeamsOnceEach ==
    pc = "done" =>
        LET first == {c \in Range(team_season_combos) :
                         \A d \in Range(team_season_combos) : ~StrLess(d.season, c.season)}
            teams == {c.team : c \in first}
            rows == out_first_season.rows
        IN  /\ out_first_season.written
            /\ {r.team : r \in Range(rows)} = teams
            /\ Len(rows) = Cardinality(teams)
            /\ \A r \in Range(rows) : r.rating = StartRating

\* C8: a missing listing file or a malformed score reaches the caller as an
\* error and leaves neither output file written; the files are written only
\* after loading, counting and filtering, the combinations file first.
C8_FailureLeavesNoOutput ==
    /\ error # "none" => (~out_team_season.written /\ ~out_first_season.written)
    /\ (pc # "start" /\ ~file_exists) => error = "FileNotFoundError"
    /\ (pc # "start" /\ \E i \in 1..Len(csv) : Malformed(csv[i].score)) =>
          (pc = "failed" /\ error # "none"
           /\ ~out_team_season.written /\ ~out_first_season.written)
    /\ out_team_season.written => pc \in {"wrote_team_season", "done"}
    /\ out_first_season.written => (out_team_season.written /\ pc = "done")

----------------------------------------------------------------------------
(* SpecAgg: save_prepare_season_initial_ratings is called on a team-season *)
(* file, as the qualification filter writes it, and a rating mapping.      *)

AggTeams == Teams \cup {<<"C">>}

\* Season labels of the team-season file: two that read_csv reads as
\* integers and two it reads as strings.
AggSeasons == {<<"9">>, <<"1", "0">>, <<"9", "/", "1", "0">>, <<"1", "0", "/", "1", "1">>}

RatingValues == {1900, 2100}

AggKeys == {<<se, to, te>> : se \in AggSeasons, to \in Tournaments, te \in AggTeams}

\* The file with one row per key of K, sorted by (season, tournament, team).
TeamSeasonRows(K) ==
    LET keys == SortedKeys(K)
    IN  [g \in 1..Len(keys) |->
            [tournament |-> keys[g][2], season |-> keys[g][1], team |-> keys[g][3]]]

InitAgg ==
    /\ pc = "call"
    /\ \E K \in {S \in SUBSET AggKeys : Cardinality(S) \in 1..MaxTeamSeasonRows} :
          team_season_file = TeamSeasonRows(K)
    /\ \E D \in (SUBSET AggTeams) \ {{}} : elo_ratings_dict \in [D -> RatingValues]
    /\ out_elo_ratings = NoFile
    /\ error = "none"
    /\ file_exists = TRUE
    /\ csv = <<>>
    /\ listing = <<>>
    /\ games_stats = <<>>
    /\ min_num_games = 1
    /\ tournament_stats = <<>>
    /\ team_season_combos = <<>>
    /\ out_team_season = NoFile
    /\ out_first_season = NoFile
    /\ score = <<>>
    /\ result = "none"

\* save_prepare_season_initial_ratings(elo_ratings_dict, team_season_path,
\* output_elo_ratings_path)
AggSave ==
    /\ pc = "call"
    /\ LET r == SavePrepareSeasonInitialRatings(elo_ratings_dict, team_season_file)
       IN  IF r.error # "none"
           THEN /\ error' = r.error
                /\ pc' = "failed"
                /\ UNCHANGED out_elo_ratings
           ELSE /\ out_elo_ratings' = File(r.rows)
                /\ pc' = "saved"
                /\ UNCHANGED error
    /\ UNCHANGED <<file_exists, csv, listing, games_stats, min_num_games,
                   tournament_stats, team_season_combos, out_team_season,
                   out_first_season, score, result, elo_ratings_dict,
                   team_season_file>>

NextAgg == AggSave

SpecAgg == InitAgg /\ [][NextAgg]_vars

\* The rows of the earliest season of the team-season file: the least season
\* number where the labels are numbers, the least label otherwise.
EarliestSeasonRows ==
    LET integers == ReadAsIntegers({r.season : r \in Range(team_season_file)})
        Earlier(a, b) == IF integers THEN Decimal(a.season) < Decimal(b.season)
                         ELSE StrLess(a.season, b.season)
        First(r) == \A x \in Range(team_season_file) : ~Earlier(x, r)
    IN  SelectSeq(team_season_file, First)

\* C9: when every earliest-season team has an external rating, the call
\* writes one (team, rating) row per earliest-season (tournament, team) row,
\* the rating being the mean, rounded to two decimals, of the external ratings
\* of all teams of the row's tournament in the earliest season; rows of later
\* seasons are not written.
C9_LeagueAverageSeeding ==
    (/\ pc \in {"saved", "failed"}
     /\ \A r \in Range(EarliestSeasonRows) : r.team \in DOMAIN elo_ratings_dict) =>
        /\ pc = "saved"
        /\ out_elo_ratings.written
        /\ Len(out_elo_ratings.rows) = Len(EarliestSeasonRows)
        /\ \A i \in 1..Len(EarliestSeasonRows) :
              LET row == EarliestSeasonRows[i]
                  peers == {r.team : r \in {x \in Range(EarliestSeasonRows) :
                                               x.tournament = row.tournament}}
                  total == SumSeq([k \in 1..Cardinality(peers) |->
                              elo_ratings_dict[SortedKeys({<<p>> : p \in peers})[k][1]]])
                  n == Cardinality(peers)
              IN  /\ out_elo_ratings.rows[i].team = row.team
                  /\ out_elo_ratings.rows[i].rating # <<>>
                  /\ 2 * n * out_elo_ratings.rows[i].rating[1] - 200 * total <= n
                  /\ 200 * total - 2 * n * out_elo_ratings.rows[i].rating[1] <= n

====
